---- MODULE Spec2Model ----
(***************************************************************************)
(* A model of the nc_api backend: the user routes (register, login, me,    *)
(* onboarding, interactions) of app/routes/user_routes.py, the User row of *)
(* app/models/user.py and the course service of                            *)
(* app/services/course/get_courses.py.                                     *)
(*                                                                         *)
(* Two specifications share the module:                                    *)
(*   Spec        the routes, requests handled concurrently: GET /me,       *)
(*               POST /onboarding and DELETE /onboarding run one service   *)
(*               call per step, two of them in flight; the other routes    *)
(*               run in one step each;                                     *)
(*   SpecCourse  the course service applied to every small course table.   *)
(*                                                                         *)
(* Optional values (Python's None) are sequences of length at most one:    *)
(* <<>> is None and <<v>> is the value v.                                  *)
(***************************************************************************)
EXTENDS Integers, Sequences, FiniteSets, TLC

VARIABLES
    users,              \* the users table: a set of User rows
    prefs,              \* the user_preferences table: rows [user_id, key, value]
    interactions,       \* the user_interactions table: rows [id, user_id, course_id, interaction_type]
    nextInteractionId,  \* the next primary key of user_interactions
    last,               \* the last request answered: its inputs, the service calls it made, its response
    inflight,           \* the requests in flight: each one's position and local variables
    received,           \* the number of requests received so far
    courses,            \* the courses table: a set of rows [course_id, subject]
    cres                \* SpecCourse: the last course service call and what it returned

vars == <<users, prefs, interactions, nextInteractionId, last, inflight, received,
          courses, cres>>

dbVars == <<users, prefs, interactions, nextInteractionId>>
routeVars == <<dbVars, last, inflight, received>>

----------------------------------------------------------------------------
(* Bounds of the model *)

MaxCourseId == 3        \* course ids are 1..MaxCourseId
MaxN == 3               \* the n of a course service call is 0..MaxN
MaxInteractions == 2    \* at most this many interaction rows are ever created
MaxRequests == 4        \* a behaviour receives at most this many requests

None == <<>>
Some(v) == <<v>>

Min(a, b) == IF a <= b THEN a ELSE b

Range(s) == {s[i] : i \in 1..Len(s)}

\* The sequences over S of length at most n.
SeqsUpTo(S, n) == UNION {[1..k -> S] : k \in 0..n}

\* The sequences of k distinct elements of S.
InjectiveSeqs(S, k) ==
    {s \in [1..k -> S] : \A i, j \in 1..k : i # j => s[i] # s[j]}

----------------------------------------------------------------------------
(* The course service: app/services/course/get_courses.py *)

\* get_random_courses: the fixed subject list, in its order.
subjects == <<"Business Finance", "Graphics Design", "Web Development", "Musical Instruments">>

\* The subjects a course row may carry: the four fixed ones and one other.
AllSubjects == Range(subjects) \cup {"Teaching"}

CourseIds == 1..MaxCourseId

\* Every course table with unique course ids.
CourseTables ==
    UNION {{{[course_id |-> i, subject |-> f[i]] : i \in ids} : f \in [ids -> AllSubjects]}
           : ids \in SUBSET CourseIds}

\* Course.query.filter_by(subject=subject)
filter_by_subject(table, subject) == {c \in table : c.subject = subject}

\* A variant of random_limit that draws with replacement.
random_limit_with_replacement(rows, n) ==
    [1..Min(n, Cardinality(rows)) -> rows]

\* .order_by(db.func.random()).limit(n).all(): every outcome of the random
\* order, cut to n rows.
random_limit(rows, n) == InjectiveSeqs(rows, Min(n, Cardinality(rows)))

\* The loop of get_random_courses from the i-th subject on: one random draw
\* for the subject, then the draws of the subjects after it, concatenated.
RECURSIVE extend_from(_, _, _)
extend_from(table, n, i) ==
    IF i > Len(subjects) THEN {<<>>}
    ELSE {random_courses \o rest :
            random_courses \in random_limit(filter_by_subject(table, subjects[i]), n),
            rest \in extend_from(table, n, i + 1)}

\* The results get_random_courses(n) can return on a table.
get_random_courses(table, n) == extend_from(table, n, 1)

\* Course.query.filter_by(course_id=course_id).first()
first_by_course_id(table, course_id) ==
    IF \E c \in table : c.course_id = course_id
    THEN Some(CHOOSE c \in table : c.course_id = course_id)
    ELSE None

\* A variant of resolve_courses that inserts each course at the front.
RECURSIVE resolve_courses_prepend(_, _)
resolve_courses_prepend(table, course_ids) ==
    IF course_ids = <<>> THEN <<>>
    ELSE LET course == first_by_course_id(table, Head(course_ids))
         IN  resolve_courses_prepend(table, Tail(course_ids))
             \o (IF course # None THEN course ELSE <<>>)

\* get_recommended_courses_by_course_id, given the ids the recommendation
\* lookup returned: each id resolved in order, ids with no course skipped.
RECURSIVE resolve_courses(_, _)
resolve_courses(table, course_ids) ==
    IF course_ids = <<>> THEN <<>>
    ELSE LET course == first_by_course_id(table, Head(course_ids))
         IN  (IF course # None THEN course ELSE <<>>)
             \o resolve_courses(table, Tail(course_ids))

\* The recommendation lookup is external: any sequence of at most n ids,
\* including ids of no course.
RecommendationLookups(n) == SeqsUpTo(1..(MaxCourseId + 1), n)

----------------------------------------------------------------------------
(* Request bodies: what request.get_json(silent=True) returns *)

\* A JSON object with the given fields (a function from keys to values).
Object(fields) == [type |-> "object", fields |-> fields]

\* get_json(silent=True) returned None: no body, or a body that is not JSON.
NoBody == [type |-> "none", fields |-> [k \in {} |-> None]]

\* The JSON object {}.
EmptyObject == Object([k \in {} |-> None])

\* A non-empty JSON array such as ["x"]: truthy, and not a dict.
ArrayBody == [type |-> "array", fields |-> [item |-> "x"]]

\* Python's truth value of the parsed body: None and {} are falsy.
Truthy(data) == data.type # "none" /\ DOMAIN data.fields # {}

\* data.get(key) on a dict.
dict_get(data, key) ==
    IF key \in DOMAIN data.fields THEN Some(data.fields[key]) ELSE None

\* {} as the data of an envelope.
EmptyDict == [k \in {} |-> None]

----------------------------------------------------------------------------
(* The User row: app/models/user.py *)

\* A new row of the users table, with the column defaults.
User(id, username, email, password_hash) ==
    [id |-> id, username |-> username, email |-> email,
     password_hash |-> password_hash,
     onboarding_done |-> FALSE, used_in_collaborative |-> FALSE]

\* User.to_dict
to_dict(u) ==
    [id |-> u.id, username |-> u.username, email |-> u.email,
     onboarding_done |-> u.onboarding_done,
     used_in_collaborative |-> u.used_in_collaborative]

\* User.get_password_hash
get_password_hash(u) == u.password_hash

----------------------------------------------------------------------------
(* The services the routes call. Their code is outside the repository's    *)
(* routes and models; they are modelled from the specification's data      *)
(* access contract (section 4.1). A database is a record                   *)
(* [users, prefs, interactions, nextInteractionId].                        *)

\* The text of an unexpected failure of a service call.
ServiceError == "service failure"

hash_password(password) == <<"hash", password>>

\* verify_password(plaintext, hash) -> bool
verify_password(password, password_hash) ==
    password # None /\ password_hash = hash_password(password[1])

\* get_user_by_username(username) -> dict | none
get_user_by_username(db, username) ==
    IF \E u \in db.users : Some(u.username) = username
    THEN Some(to_dict(CHOOSE u \in db.users : Some(u.username) = username))
    ELSE None

\* get_user_by_id(id) -> dict | none
get_user_by_id(db, id) ==
    IF \E u \in db.users : u.id = id
    THEN Some(to_dict(CHOOSE u \in db.users : u.id = id))
    ELSE None

\* get_password_hash_by_username(username) -> string | none
get_password_hash_by_username(db, username) ==
    IF \E u \in db.users : Some(u.username) = username
    THEN Some(get_password_hash(CHOOSE u \in db.users : Some(u.username) = username))
    ELSE None

\* create_user fails with a conflict when the username or the email is taken.
create_user_conflict(db, username, email) ==
    \E u \in db.users : u.username = username \/ u.email = email

\* create_user(username, email, password): the database with the new row.
create_user(db, username, email, password) ==
    [db EXCEPT !.users =
        @ \cup {User(Cardinality(db.users) + 1, username, email, hash_password(password))}]

SetOnboardingDone(db, user_id, done) ==
    {IF u.id = user_id THEN [u EXCEPT !.onboarding_done = done] ELSE u : u \in db.users}

\* complete_onboarding(user_id, preferences): persists the preference rows
\* and sets onboarding_done; the precondition is the caller's to check.
complete_onboarding(db, user_id, data) ==
    [db EXCEPT
        !.prefs = @ \cup {[user_id |-> user_id, key |-> kv[1], value |-> kv[2]] :
                            kv \in data.fields["preferences"]},
        !.users = SetOnboardingDone(db, user_id, TRUE)]

\* reset_onboarding(user_id): deletes the preference rows, clears onboarding_done.
reset_onboarding(db, user_id) ==
    [db EXCEPT
        !.prefs = {r \in @ : r.user_id # user_id},
        !.users = SetOnboardingDone(db, user_id, FALSE)]

\* get_user_preferences(user_id)
get_user_preferences(db, user_id) ==
    {[key |-> r.key, value |-> r.value] : r \in {x \in db.prefs : x.user_id = user_id}}

\* add_user_interaction(user_id, course_id, interaction_type) -> Interaction
new_interaction(db, user_id, course_id, interaction_type) ==
    [id |-> db.nextInteractionId, user_id |-> user_id,
     course_id |-> course_id, interaction_type |-> interaction_type]

add_user_interaction(db, user_id, course_id, interaction_type) ==
    [db EXCEPT
        !.interactions = @ \cup {new_interaction(db, user_id, course_id, interaction_type)},
        !.nextInteractionId = @ + 1]

\* get_user_interactions(user_id)
get_user_interactions(db, user_id) == {i \in db.interactions : i.user_id = user_id}

\* delete_user_interaction_by_id(id) -> message string
delete_user_interaction_by_id(db, interaction_id) ==
    [db EXCEPT !.interactions = {i \in @ : i.id # interaction_id}]

delete_message(db, interaction_id) ==
    IF \E i \in db.interactions : i.id = interaction_id
    THEN "Interaction deleted successfully"
    ELSE "Interaction not found"

\* register_request_schema: an object with username, email and password.
valid_register_request(data) ==
    /\ data.type = "object"
    /\ {"username", "email", "password"} \subseteq DOMAIN data.fields

\* create_preference_request_schema: an object with the preferences.
valid_preference_request(data) ==
    /\ data.type = "object"
    /\ "preferences" \in DOMAIN data.fields

ValidationMessage == "payload does not match the schema"

----------------------------------------------------------------------------
(* What a handler run yields *)

\* One service call: its name and its arguments.
Call(fn, args) == [fn |-> fn, args |-> args]

\* jsonify({...}), code
jsonify(status, message, data, code) ==
    [code |-> code, json |-> [status |-> status, message |-> message, data |-> data]]

\* The handler returned a response.
Return(db, calls, resp) ==
    [db |-> db, calls |-> calls, raised |-> None, resp |-> Some(resp), value |-> None]

\* An exception is propagating out of the code run so far.
Raise(db, calls, err) ==
    [db |-> db, calls |-> calls, raised |-> Some(err), resp |-> None, value |-> None]

\* The handler goes on after a service call that returned value.
Continue(db, calls, value) ==
    [db |-> db, calls |-> calls, raised |-> None, resp |-> None, value |-> Some(value)]

\* The handler has neither returned nor raised.
Going(o) == o.resp = None /\ o.raised = None

----------------------------------------------------------------------------
(* The route handlers: app/routes/user_routes.py.                          *)
(* Each takes the database, the request (the token's identity who, the     *)
(* parsed body data, a path argument) and fault, the number of the         *)
(* handler's service call that fails with an unexpected exception          *)
(* (0: none fails). A failing call leaves the database as it was.          *)

\* POST /register
register_user(db, data, fault) ==
    IF ~Truthy(data)
    THEN Return(db, <<>>, jsonify("error", "No data provided", EmptyDict, 400))
    ELSE IF ~valid_register_request(data)
    THEN Return(db, <<>>,
                jsonify("error", "Invalid payload: " \o ValidationMessage, EmptyDict, 400))
    ELSE
    LET username == data.fields["username"]
        email == data.fields["email"]
        password == data.fields["password"]
        c1 == Call("create_user", <<username, email, password>>)
    IN  IF fault = 1
        THEN Return(db, <<c1>>,
                    jsonify("error", "Error creating user: " \o ServiceError, EmptyDict, 500))
        ELSE IF create_user_conflict(db, username, email)
        THEN Return(db, <<c1>>,
                    jsonify("error", "Error creating user: " \o "username or email already taken",
                            EmptyDict, 500))
        ELSE LET db1 == create_user(db, username, email, password)
             IN  Return(db1, <<c1>>,
                        jsonify("success", "User registered successfully",
                                get_user_by_username(db1, Some(username))[1], 201))

\* The days an access token stays valid: timedelta(days=3).
TokenDays == 3

\* create_access_token(identity, expires_delta)
create_access_token(identity, days) == [identity |-> identity, days |-> days]

\* POST /login. No statement of the handler is inside a try block.
login_user(db, data, fault) ==
    IF ~Truthy(data)
    THEN Return(db, <<>>, jsonify("error", "No data provided", EmptyDict, 400))
    ELSE IF data.type # "object"
    THEN Raise(db, <<>>, "AttributeError: object has no attribute 'get'")
    ELSE
    LET username == dict_get(data, "username")
        password == dict_get(data, "password")
        c1 == Call("get_password_hash_by_username", <<username>>)
        c2 == Call("get_user_by_username", <<username>>)
        password_hash == get_password_hash_by_username(db, username)
        user == get_user_by_username(db, username)
    IN  IF fault = 1 THEN Raise(db, <<c1>>, ServiceError)
        ELSE IF fault = 2 THEN Raise(db, <<c1, c2>>, ServiceError)
        ELSE IF password_hash = None
        THEN Return(db, <<c1, c2>>, jsonify("error", "User not found", EmptyDict, 404))
        ELSE
        LET c3 == Call("verify_password", <<password, password_hash[1]>>)
        IN  IF fault = 3 THEN Raise(db, <<c1, c2, c3>>, ServiceError)
            ELSE IF ~verify_password(password, password_hash[1])
            THEN Return(db, <<c1, c2, c3>>,
                        jsonify("error", "Invalid password", EmptyDict, 401))
            ELSE
            LET c4 == Call("create_access_token", <<user[1].username, TokenDays>>)
                access_token == create_access_token(user[1].username, TokenDays)
            IN  IF fault = 4 THEN Raise(db, <<c1, c2, c3, c4>>, ServiceError)
                ELSE Return(db, <<c1, c2, c3, c4>>,
                            jsonify("success", "Login successful",
                                    [access_token |-> access_token,
                                     user |-> [id |-> user[1].id,
                                               username |-> user[1].username,
                                               email |-> user[1].email]],
                                    200))

\* A variant of except_Exception whose return leaves out the status code,
\* so that the framework answers 200.
except_Exception_no_code(o, prefix) ==
    IF o.raised # None
    THEN Return(o.db, o.calls, jsonify("error", prefix \o o.raised[1], EmptyDict, 200))
    ELSE o

\* An except Exception clause: what propagates out of the try block becomes
\* a 500 envelope carrying the error text.
except_Exception(o, prefix) ==
    IF o.raised # None
    THEN Return(o.db, o.calls, jsonify("error", prefix \o o.raised[1], EmptyDict, 500))
    ELSE o

\* The handlers of GET /me, POST /onboarding and DELETE /onboarding make
\* several service calls, each a round trip to the database, with no lock
\* or transaction around them: other requests run between the calls. Each
\* is modelled one service call at a time: an operator per call, given the
\* handler's local variables and fails, whether the call raises.

\* GET /me: get_jwt_identity and get_user_by_username, and the 404.
get_current_user_user(db, who, fails) ==
    LET c1 == Call("get_user_by_username", <<who>>)
        user == get_user_by_username(db, Some(who))
    IN  IF fails THEN Raise(db, <<c1>>, ServiceError)
        ELSE IF user = None
        THEN Return(db, <<c1>>, jsonify("error", "User not found", EmptyDict, 404))
        ELSE Continue(db, <<c1>>, user[1])

\* GET /me: get_user_preferences.
get_current_user_preferences(db, user, calls, fails) ==
    LET c2 == Call("get_user_preferences", <<user.id>>)
    IN  IF fails THEN Raise(db, calls \o <<c2>>, ServiceError)
        ELSE Continue(db, calls \o <<c2>>, get_user_preferences(db, user.id))

\* GET /me: get_user_interactions, the user_id stripped, and the response.
get_current_user_interactions(db, user, user_preferences, calls, fails) ==
    LET c3 == Call("get_user_interactions", <<user.id>>)
        user_interactions ==
            {[id |-> i.id, course_id |-> i.course_id,
              interaction_type |-> i.interaction_type] :
                i \in get_user_interactions(db, user.id)}
    IN  IF fails THEN Raise(db, calls \o <<c3>>, ServiceError)
        ELSE Return(db, calls \o <<c3>>,
                    jsonify("success", "User retrieved successfully",
                            [user |-> user,
                             preferences |-> user_preferences,
                             interactions |-> user_interactions],
                            200))

\* user['onboarding_done'], the condition of POST /onboarding's 400.
onboarding_done_of(user) == user.onboarding_done

\* POST /onboarding: get_user_by_username, the 404 and the 400.
complete_user_onboarding_read(db, who, fails) ==
    LET c1 == Call("get_user_by_username", <<who>>)
        user == get_user_by_username(db, Some(who))
    IN  IF fails THEN Raise(db, <<c1>>, ServiceError)
        ELSE IF user = None
        THEN Return(db, <<c1>>, jsonify("error", "User not found", EmptyDict, 404))
        ELSE IF onboarding_done_of(user[1])
        THEN Return(db, <<c1>>,
                    jsonify("error", "Onboarding already completed", user[1], 400))
        ELSE Continue(db, <<c1>>, user[1])

\* POST /onboarding: the body is read and validated, and complete_onboarding
\* is called for the user read before.
complete_user_onboarding_write(db, user, calls, data, fails) ==
    IF ~valid_preference_request(data)
    THEN Raise(db, calls, "ValidationError: " \o ValidationMessage)
    ELSE IF ~Truthy(data)
    THEN Return(db, calls, jsonify("error", "Invalid payload", EmptyDict, 400))
    ELSE
    LET c2 == Call("complete_onboarding", <<user.id, data>>)
    IN  IF fails THEN Raise(db, calls \o <<c2>>, ServiceError)
        ELSE Continue(complete_onboarding(db, user.id, data), calls \o <<c2>>, user)

\* POST /onboarding: user = get_user_by_id(user['id']), the row as it is now.
complete_user_onboarding_user(db, user, calls, fails) ==
    LET c3 == Call("get_user_by_id", <<user.id>>)
        user_again == get_user_by_id(db, user.id)
    IN  IF fails THEN Raise(db, calls \o <<c3>>, ServiceError)
        ELSE IF user_again = None
        THEN Raise(db, calls \o <<c3>>, "TypeError: 'NoneType' object is not subscriptable")
        ELSE Continue(db, calls \o <<c3>>, user_again[1])

\* POST /onboarding: get_user_preferences(user['id']) and the response.
complete_user_onboarding_preferences(db, user, calls, fails) ==
    LET c4 == Call("get_user_preferences", <<user.id>>)
    IN  IF fails THEN Raise(db, calls \o <<c4>>, ServiceError)
        ELSE Return(db, calls \o <<c4>>,
                    jsonify("success", "Onboarding completed successfully",
                            [user |-> user,
                             preferences |-> get_user_preferences(db, user.id)],
                            200))

\* not user['onboarding_done'], the condition of DELETE /onboarding's 400.
onboarding_not_done_of(user) == ~user.onboarding_done

\* DELETE /onboarding: get_user_by_username, the 404 and the 400.
reset_user_onboarding_read(db, who, fails) ==
    LET c1 == Call("get_user_by_username", <<who>>)
        user == get_user_by_username(db, Some(who))
    IN  IF fails THEN Raise(db, <<c1>>, ServiceError)
        ELSE IF user = None
        THEN Return(db, <<c1>>, jsonify("error", "User not found", EmptyDict, 404))
        ELSE IF onboarding_not_done_of(user[1])
        THEN Return(db, <<c1>>,
                    jsonify("error", "Onboarding not completed yet", user[1], 400))
        ELSE Continue(db, <<c1>>, user[1])

\* DELETE /onboarding: reset_onboarding is called for the user read before.
reset_user_onboarding_write(db, user, calls, fails) ==
    LET c2 == Call("reset_onboarding", <<user.id>>)
    IN  IF fails THEN Raise(db, calls \o <<c2>>, ServiceError)
        ELSE Continue(reset_onboarding(db, user.id), calls \o <<c2>>, user)

\* DELETE /onboarding: user = get_user_by_id(user['id']), the row as it is now.
reset_user_onboarding_user(db, user, calls, fails) ==
    LET c3 == Call("get_user_by_id", <<user.id>>)
        user_again == get_user_by_id(db, user.id)
    IN  IF fails THEN Raise(db, calls \o <<c3>>, ServiceError)
        ELSE IF user_again = None
        THEN Raise(db, calls \o <<c3>>, "TypeError: 'NoneType' object is not subscriptable")
        ELSE Continue(db, calls \o <<c3>>, user_again[1])

\* DELETE /onboarding: get_user_preferences(user['id']) and the response.
reset_user_onboarding_preferences(db, user, calls, fails) ==
    LET c4 == Call("get_user_preferences", <<user.id>>)
    IN  IF fails THEN Raise(db, calls \o <<c4>>, ServiceError)
        ELSE Return(db, calls \o <<c4>>,
                    jsonify("success", "Onboarding reset successfully",
                            [user |-> user,
                             preferences |-> get_user_preferences(db, user.id)],
                            200))

\* Python's "not x" of a value data.get returned: None is falsy, and so is
\* the zero of the value's type (0, "").
Falsy(v, zero) == v = None \/ v = Some(zero)

\* POST /interactions: the try block, entered with the user and the fields.
log_user_interaction_try(db, user, calls, course_id, interaction_type, fault) ==
    LET c2 == Call("add_user_interaction", <<user.id, course_id, interaction_type>>)
    IN  IF fault = 2 THEN Raise(db, calls \o <<c2>>, ServiceError)
        ELSE Return(add_user_interaction(db, user.id, course_id, interaction_type),
                    calls \o <<c2>>,
                    jsonify("success", "Interaction logged successfully",
                            new_interaction(db, user.id, course_id, interaction_type), 201))

\* POST /interactions. The body check, the user lookup and the field checks
\* come before the try block.
log_user_interaction(db, who, data, fault) ==
    IF ~Truthy(data)
    THEN Return(db, <<>>, jsonify("error", "No data provided", EmptyDict, 400))
    ELSE
    LET c1 == Call("get_user_by_username", <<who>>)
        user == get_user_by_username(db, Some(who))
    IN  IF fault = 1 THEN Raise(db, <<c1>>, ServiceError)
        ELSE IF user = None
        THEN Return(db, <<c1>>, jsonify("error", "User not found", EmptyDict, 404))
        ELSE IF data.type # "object"
        THEN Raise(db, <<c1>>, "AttributeError: object has no attribute 'get'")
        ELSE
        LET course_id == dict_get(data, "course_id")
            interaction_type == dict_get(data, "interaction_type")
        IN  IF Falsy(course_id, 0) \/ Falsy(interaction_type, "")
            THEN Return(db, <<c1>>,
                        jsonify("error", "Missing course_id or interaction_type",
                                EmptyDict, 400))
            ELSE except_Exception(
                     log_user_interaction_try(db, user[1], <<c1>>, course_id[1],
                                              interaction_type[1], fault),
                     "Error logging interaction: ")

\* A variant of delete_user_interaction_try that deletes only an interaction
\* of the requesting user.
delete_user_interaction_try_owned(db, who, interaction_id, fault) ==
    LET c1 == Call("get_user_by_username", <<who>>)
        user == get_user_by_username(db, Some(who))
    IN  IF fault = 1 THEN Raise(db, <<c1>>, ServiceError)
        ELSE IF user = None
        THEN Return(db, <<c1>>, jsonify("error", "User not found", EmptyDict, 404))
        ELSE IF \E i \in db.interactions : i.id = interaction_id /\ i.user_id # user[1].id
        THEN Return(db, <<c1>>, jsonify("error", "Interaction not found", EmptyDict, 404))
        ELSE
        LET c2 == Call("delete_user_interaction_by_id", <<interaction_id>>)
        IN  IF fault = 2 THEN Raise(db, <<c1, c2>>, ServiceError)
            ELSE Return(delete_user_interaction_by_id(db, interaction_id), <<c1, c2>>,
                        jsonify("success", delete_message(db, interaction_id), EmptyDict, 200))

\* DELETE /interactions/<interaction_id>: the try block.
delete_user_interaction_try(db, who, interaction_id, fault) ==
    LET c1 == Call("get_user_by_username", <<who>>)
        user == get_user_by_username(db, Some(who))
    IN  IF fault = 1 THEN Raise(db, <<c1>>, ServiceError)
        ELSE IF user = None
        THEN Return(db, <<c1>>, jsonify("error", "User not found", EmptyDict, 404))
        ELSE
        LET c2 == Call("delete_user_interaction_by_id", <<interaction_id>>)
        IN  IF fault = 2 THEN Raise(db, <<c1, c2>>, ServiceError)
            ELSE Return(delete_user_interaction_by_id(db, interaction_id), <<c1, c2>>,
                        jsonify("success", delete_message(db, interaction_id), EmptyDict, 200))

\* DELETE /interactions/<interaction_id>
delete_user_interaction(db, who, interaction_id, fault) ==
    except_Exception(delete_user_interaction_try(db, who, interaction_id, fault),
                     "Error deleting interaction: ")

----------------------------------------------------------------------------
(* The calls of the course service (SpecCourse) *)

NoCall == [op |-> "none", n |-> 0, ids |-> <<>>, out |-> <<>>]

\* The course service keeps no state between calls: each behaviour of
\* SpecCourse draws a table and applies one call to it.
GetRandomCourses ==
    /\ cres = NoCall
    /\ \E n \in 0..MaxN :
        \E out \in get_random_courses(courses, n) :
            cres' = [op |-> "get_random_courses", n |-> n, ids |-> <<>>, out |-> out]

GetRecommendedCourses ==
    /\ cres = NoCall
    /\ \E n \in 0..MaxN :
        \E ids \in RecommendationLookups(n) :
            cres' = [op |-> "get_recommended_courses_by_course_id", n |-> n,
                     ids |-> ids, out |-> resolve_courses(courses, ids)]

----------------------------------------------------------------------------
(* The requests the model sends *)

Names == {"alice", "bob"}
Passwords == {"pw1", "pw2"}

\* An onboarding payload: (key, value) pairs.
Preferences == {<<"subject", "Web Development">>, <<"level", "Beginner">>}

RegisterBodies ==
    {NoBody, EmptyObject, ArrayBody, Object([username |-> "alice"])}
    \cup {Object([username |-> "alice", email |-> "a@nc.io", password |-> "pw1"]),
          Object([username |-> "bob", email |-> "b@nc.io", password |-> "pw1"]),
          Object([username |-> "bob", email |-> "a@nc.io", password |-> "pw1"])}

LoginBodies ==
    {NoBody, EmptyObject, ArrayBody, Object([password |-> "pw1"])}
    \cup {Object([username |-> n]) : n \in Names}
    \cup {Object([username |-> n, password |-> p]) : n \in Names, p \in Passwords}

OnboardingBodies ==
    {NoBody, ArrayBody, Object([subject |-> "Web Development"]),
     Object([preferences |-> Preferences])}

InteractionBodies ==
    {NoBody, EmptyObject, ArrayBody, Object([course_id |-> 1])}
    \cup {Object([course_id |-> c, interaction_type |-> t]) : c \in {0, 1}, t \in {"", "view"}}

\* The ids a DELETE /interactions/<id> names: every id a row can have, and
\* one no row ever has.
InteractionIds == 1..(MaxInteractions + 1)

\* The (body, fault) pairs of a route: every body with no failing call, and
\* the bodies that reach the service calls with each call failing in turn.
WithFaults(bodies, reaching, nCalls) ==
    (bodies \X {0}) \cup (reaching \X (1..nCalls))

RegisterRequests ==
    WithFaults(RegisterBodies,
               {Object([username |-> "alice", email |-> "a@nc.io", password |-> "pw1"])}, 1)

LoginRequests ==
    WithFaults(LoginBodies,
               {Object([username |-> n, password |-> "pw1"]) : n \in Names}, 4)

InteractionRequests ==
    WithFaults(InteractionBodies,
               {Object([course_id |-> 1, interaction_type |-> "view"])}, 2)

\* The database the handlers run on.
DB == [users |-> users, prefs |-> prefs, interactions |-> interactions,
       nextInteractionId |-> nextInteractionId]

NoRequest ==
    [route |-> "none", who |-> None, data |-> NoBody, interaction_id |-> 0, fault |-> 0,
     pre |-> [users |-> {}, prefs |-> {}, interactions |-> {}, nextInteractionId |-> 1],
     calls |-> <<>>, raised |-> None, resp |-> None]

\* The database after the handler, and the record of the request: its
\* inputs, the database before it, and the outcome o.
Handled(route, who, data, interaction_id, fault, o) ==
    /\ received < MaxRequests
    /\ received' = received + 1
    /\ users' = o.db.users
    /\ prefs' = o.db.prefs
    /\ interactions' = o.db.interactions
    /\ nextInteractionId' = o.db.nextInteractionId
    /\ last' = [route |-> route, who |-> who, data |-> data,
                interaction_id |-> interaction_id, fault |-> fault,
                pre |-> DB,
                calls |-> o.calls, raised |-> o.raised, resp |-> o.resp]
    /\ UNCHANGED <<inflight, courses, cres>>

\* POST /register makes one service call. POST /login decides on the hash
\* it reads first and copies from the user only the id, the username and the
\* email, which no route changes or removes: its calls are taken in one step.
Register ==
    \E rq \in RegisterRequests :
        Handled("POST /register", None, rq[1], 0, rq[2], register_user(DB, rq[1], rq[2]))

Login ==
    \E rq \in LoginRequests :
        Handled("POST /login", None, rq[1], 0, rq[2], login_user(DB, rq[1], rq[2]))

\* The requests of GET /me, POST /onboarding and DELETE /onboarding in
\* flight at once.
Slots == {1, 2}

\* A slot with no request: pc is the request's position, who the identity
\* of its token, data its body, user and user_preferences the handler's
\* local variables, calls the service calls made so far; done_before
\* observes the user's onboarding_done in the database at the moment the
\* request called complete_onboarding or reset_onboarding.
IdleSlot ==
    [pc |-> "idle", route |-> "none", who |-> "alice", data |-> NoBody, user |-> None,
     user_preferences |-> {}, calls |-> <<>>, done_before |-> FALSE]

\* A request arrives in the first slot that is free.
FreeSlot(w) ==
    /\ received < MaxRequests
    /\ inflight[w].pc = "idle"
    /\ \A v \in Slots : v < w => inflight[v].pc # "idle"

\* The index of the service call that raised in o, 0 if none did.
FaultOf(o) == IF o.raised = Some(ServiceError) THEN Len(o.calls) ELSE 0

\* One step of the request in slot w with outcome o: the database after it;
\* the request goes on as the slot going, or it is answered, what it raised
\* turned into a response by the handler's except clause, and recorded.
Step(w, route, who, data, prefix, o, going) ==
    /\ received' = IF inflight[w].pc = "idle" THEN received + 1 ELSE received
    /\ users' = o.db.users
    /\ prefs' = o.db.prefs
    /\ interactions' = o.db.interactions
    /\ nextInteractionId' = o.db.nextInteractionId
    /\ IF Going(o)
       THEN /\ inflight' = [inflight EXCEPT ![w] = going]
            /\ UNCHANGED last
       ELSE /\ inflight' = [inflight EXCEPT ![w] = IdleSlot]
            /\ last' = [route |-> route, who |-> Some(who), data |-> data,
                        interaction_id |-> 0, fault |-> FaultOf(o),
                        pre |-> DB,
                        calls |-> except_Exception(o, prefix).calls,
                        raised |-> except_Exception(o, prefix).raised,
                        resp |-> except_Exception(o, prefix).resp]
    /\ UNCHANGED <<courses, cres>>

\* The onboarding_done of the user's row in the database.
DoneInDB(user) == \E u \in users : u.id = user.id /\ u.onboarding_done

MeUser(w) ==
    /\ FreeSlot(w)
    /\ \E who \in Names, fails \in BOOLEAN :
        LET o == get_current_user_user(DB, who, fails)
        IN  Step(w, "GET /me", who, NoBody, "Error retrieving user: ", o,
                 [IdleSlot EXCEPT !.pc = "me_preferences", !.route = "GET /me",
                                  !.who = who, !.user = o.value, !.calls = o.calls])

MePreferences(w) ==
    /\ inflight[w].pc = "me_preferences"
    /\ \E fails \in BOOLEAN :
        LET r == inflight[w]
            o == get_current_user_preferences(DB, r.user[1], r.calls, fails)
        IN  Step(w, r.route, r.who, r.data, "Error retrieving user: ", o,
                 [r EXCEPT !.pc = "me_interactions", !.user_preferences = o.value[1],
                           !.calls = o.calls])

MeInteractions(w) ==
    /\ inflight[w].pc = "me_interactions"
    /\ \E fails \in BOOLEAN :
        LET r == inflight[w]
            o == get_current_user_interactions(DB, r.user[1], r.user_preferences,
                                               r.calls, fails)
        IN  Step(w, r.route, r.who, r.data, "Error retrieving user: ", o, r)

OnboardingRead(w) ==
    /\ FreeSlot(w)
    /\ \E who \in Names, data \in OnboardingBodies, fails \in BOOLEAN :
        LET o == complete_user_onboarding_read(DB, who, fails)
        IN  Step(w, "POST /onboarding", who, data, "Error completing onboarding: ", o,
                 [IdleSlot EXCEPT !.pc = "onboarding_write", !.route = "POST /onboarding",
                                  !.who = who, !.data = data, !.user = o.value,
                                  !.calls = o.calls])

OnboardingWrite(w) ==
    /\ inflight[w].pc = "onboarding_write"
    /\ \E fails \in BOOLEAN :
        LET r == inflight[w]
            o == complete_user_onboarding_write(DB, r.user[1], r.calls, r.data, fails)
        IN  Step(w, r.route, r.who, r.data, "Error completing onboarding: ", o,
                 [r EXCEPT !.pc = "onboarding_user", !.calls = o.calls,
                           !.done_before = DoneInDB(r.user[1])])

OnboardingUser(w) ==
    /\ inflight[w].pc = "onboarding_user"
    /\ \E fails \in BOOLEAN :
        LET r == inflight[w]
            o == complete_user_onboarding_user(DB, r.user[1], r.calls, fails)
        IN  Step(w, r.route, r.who, r.data, "Error completing onboarding: ", o,
                 [r EXCEPT !.pc = "onboarding_preferences", !.user = o.value,
                           !.calls = o.calls])

OnboardingPreferences(w) ==
    /\ inflight[w].pc = "onboarding_preferences"
    /\ \E fails \in BOOLEAN :
        LET r == inflight[w]
            o == complete_user_onboarding_preferences(DB, r.user[1], r.calls, fails)
        IN  Step(w, r.route, r.who, r.data, "Error completing onboarding: ", o, r)

ResetRead(w) ==
    /\ FreeSlot(w)
    /\ \E who \in Names, fails \in BOOLEAN :
        LET o == reset_user_onboarding_read(DB, who, fails)
        IN  Step(w, "DELETE /onboarding", who, NoBody, "Error resetting onboarding: ", o,
                 [IdleSlot EXCEPT !.pc = "reset_write", !.route = "DELETE /onboarding",
                                  !.who = who, !.user = o.value, !.calls = o.calls])

ResetWrite(w) ==
    /\ inflight[w].pc = "reset_write"
    /\ \E fails \in BOOLEAN :
        LET r == inflight[w]
            o == reset_user_onboarding_write(DB, r.user[1], r.calls, fails)
        IN  Step(w, r.route, r.who, r.data, "Error resetting onboarding: ", o,
                 [r EXCEPT !.pc = "reset_user", !.calls = o.calls,
                           !.done_before = DoneInDB(r.user[1])])

ResetUser(w) ==
    /\ inflight[w].pc = "reset_user"
    /\ \E fails \in BOOLEAN :
        LET r == inflight[w]
            o == reset_user_onboarding_user(DB, r.user[1], r.calls, fails)
        IN  Step(w, r.route, r.who, r.data, "Error resetting onboarding: ", o,
                 [r EXCEPT !.pc = "reset_preferences", !.user = o.value,
                           !.calls = o.calls])

ResetPreferences(w) ==
    /\ inflight[w].pc = "reset_preferences"
    /\ \E fails \in BOOLEAN :
        LET r == inflight[w]
            o == reset_user_onboarding_preferences(DB, r.user[1], r.calls, fails)
        IN  Step(w, r.route, r.who, r.data, "Error resetting onboarding: ", o, r)

\* POST /interactions and DELETE /interactions/<id> look the user up and
\* make one call that changes the database; no route removes a user, so the
\* lookup's answer still holds at the second call: one step each.
LogInteraction ==
    /\ nextInteractionId <= MaxInteractions
    /\ \E who \in Names, rq \in InteractionRequests :
        Handled("POST /interactions", Some(who), rq[1], 0, rq[2],
                log_user_interaction(DB, who, rq[1], rq[2]))

DeleteInteraction ==
    \E who \in Names, interaction_id \in InteractionIds, fault \in 0..2 :
        Handled("DELETE /interactions", Some(who), NoBody, interaction_id, fault,
                delete_user_interaction(DB, who, interaction_id, fault))

InitRoutes ==
    /\ users = {}
    /\ prefs = {}
    /\ interactions = {}
    /\ nextInteractionId = 1
    /\ last = NoRequest
    /\ inflight = [w \in Slots |-> IdleSlot]
    /\ received = 0

InitCourse ==
    /\ InitRoutes
    /\ courses \in CourseTables
    /\ cres = NoCall

NextCourse ==
    \/ GetRandomCourses /\ UNCHANGED <<routeVars, courses>>
    \/ GetRecommendedCourses /\ UNCHANGED <<routeVars, courses>>

SpecCourse == InitCourse /\ [][NextCourse]_vars

Init ==
    /\ InitRoutes
    /\ courses = {}
    /\ cres = NoCall

Next ==
    \/ Register
    \/ Login
    \/ LogInteraction
    \/ DeleteInteraction
    \/ \E w \in Slots : MeUser(w)
    \/ \E w \in Slots : MePreferences(w)
    \/ \E w \in Slots : MeInteractions(w)
    \/ \E w \in Slots : OnboardingRead(w)
    \/ \E w \in Slots : OnboardingWrite(w)
    \/ \E w \in Slots : OnboardingUser(w)
    \/ \E w \in Slots : OnboardingPreferences(w)
    \/ \E w \in Slots : ResetRead(w)
    \/ \E w \in Slots : ResetWrite(w)
    \/ \E w \in Slots : ResetUser(w)
    \/ \E w \in Slots : ResetPreferences(w)

Spec == Init /\ [][Next]_vars

----------------------------------------------------------------------------
(* Claims about the course service, checked under SpecCourse *)

SubjectIndex(s) == CHOOSE i \in 1..Len(subjects) : subjects[i] = s

\* The positions of out that hold a course of subject s.
PositionsOf(out, s) == {i \in 1..Len(out) : out[i].subject = s}

\* C6: get_random_courses(n) returns at most 4*n courses of the table, each
\* of one of the four fixed subjects, with min(n, number of courses of the
\* subject) distinct courses per subject, grouped in subject-list order.
C6_RandomCourses ==
    cres.op = "get_random_courses" =>
        LET out == cres.out
            n == cres.n
        IN  /\ Len(out) <= 4 * n
            /\ \A i \in 1..Len(out) :
                    /\ out[i] \in courses
                    /\ out[i].subject \in
                         {"Business Finance", "Graphics Design",
                          "Web Development", "Musical Instruments"}
            /\ \A s \in {"Business Finance", "Graphics Design",
                          "Web Development", "Musical Instruments"} :
                    /\ Cardinality(PositionsOf(out, s))
                         = Min(n, Cardinality({c \in courses : c.subject = s}))
                    /\ \A i, j \in PositionsOf(out, s) : i # j => out[i] # out[j]
            /\ \A i, j \in 1..Len(out) :
                    i < j => SubjectIndex(out[i].subject) <= SubjectIndex(out[j].subject)

\* A draw that had to cut a subject down to n courses and returned courses of
\* two subjects.
C6_Witness ==
    /\ cres.op = "get_random_courses"
    /\ cres.n >= 1
    /\ \E s \in Range(subjects) : Cardinality({c \in courses : c.subject = s}) > cres.n
    /\ \E i, j \in 1..Len(cres.out) : cres.out[i].subject # cres.out[j].subject

HasCourse(id) == \E c \in courses : c.course_id = id

\* C7: get_recommended_courses_by_course_id returns exactly the courses of
\* the looked-up ids that exist in the table, in the lookup's order, skipping
\* the ids with no course; the result is never longer than the lookup.
C7_RecommendedCourses ==
    cres.op = "get_recommended_courses_by_course_id" =>
        LET kept == SelectSeq(cres.ids, HasCourse)
        IN  /\ Len(cres.out) = Len(kept)
            /\ \A i \in 1..Len(kept) :
                    /\ cres.out[i] \in courses
                    /\ cres.out[i].course_id = kept[i]
            /\ Len(cres.out) <= Len(cres.ids)

\* A lookup with an id of no course between two different ids that resolve.
C7_Witness ==
    /\ cres.op = "get_recommended_courses_by_course_id"
    /\ Len(cres.ids) = 3
    /\ Len(cres.out) = 2
    /\ ~HasCourse(cres.ids[2])
    /\ cres.out[1] # cres.out[2]

----------------------------------------------------------------------------
(* Claims about the routes, checked under Spec *)

\* The row of the named user in a users table, if there is one.
RowOf(table, username) == {u \in table : Some(u.username) = username}

LastCalled(fn) == \E i \in 1..Len(last.calls) : last.calls[i].fn = fn

Responded(code, message) ==
    /\ last.resp # None
    /\ last.resp[1].code = code
    /\ last.resp[1].json.message = message

\* The request in slot w has called complete_onboarding.
CalledCompleteOnboarding(w) ==
    inflight[w].pc \in {"onboarding_user", "onboarding_preferences"}

\* The request in slot w has called reset_onboarding.
CalledResetOnboarding(w) ==
    inflight[w].pc \in {"reset_user", "reset_preferences"}

\* The last request was answered at its first step, the lookup of the user,
\* which found a row whose onboarding_done is done.
AnsweredAtLookup(done) ==
    /\ Len(last.calls) = 1
    /\ last.fault = 0
    /\ \E u \in RowOf(last.pre.users, last.who) : u.onboarding_done = done

\* C1: in any sequence of requests, POST /onboarding calls
\* complete_onboarding only while the user's onboarding_done is false; a
\* completion answered 200 reports onboarding_done true; a POST /onboarding
\* of a user whose onboarding_done is true is answered 400 "Onboarding
\* already completed" without a call of complete_onboarding.
C1_OnboardingOnce ==
    /\ \A w \in Slots : CalledCompleteOnboarding(w) => ~inflight[w].done_before
    /\ last.route = "POST /onboarding" =>
        /\ (last.resp # None /\ last.resp[1].code = 200) =>
              last.resp[1].json.data.user.onboarding_done
        /\ AnsweredAtLookup(TRUE) =>
              /\ Responded(400, "Onboarding already completed")
              /\ ~LastCalled("complete_onboarding")

\* C2: DELETE /onboarding calls reset_onboarding only while the user's
\* onboarding_done is true; for an existing user whose onboarding_done is
\* false it answers 400 "Onboarding not completed yet" and changes nothing;
\* a reset answered 200 reports onboarding_done false and no preferences.
C2_ResetOnlyWhenDone ==
    /\ \A w \in Slots : CalledResetOnboarding(w) => inflight[w].done_before
    /\ last.route = "DELETE /onboarding" =>
        /\ AnsweredAtLookup(FALSE) =>
              /\ Responded(400, "Onboarding not completed yet")
              /\ ~LastCalled("reset_onboarding")
        /\ (last.resp # None /\ last.resp[1].code = 200) =>
              /\ ~last.resp[1].json.data.user.onboarding_done
              /\ last.resp[1].json.data.preferences = {}

\* The username and the password of a login body (None when absent).
LoginField(key) ==
    IF last.data.type = "object" THEN dict_get(last.data, key) ELSE None

\* C3: POST /login with a non-empty JSON body, no service call failing, has
\* exactly three outcomes: 404 "User not found" for an unknown username, 401
\* "Invalid password" for a known username and a password that fails
\* verification, 200 with a token for the username with a 3-day expiry
\* otherwise; no token is issued in the 404 and 401 cases.
C3_LoginThreeOutcomes ==
    (last.route = "POST /login" /\ Truthy(last.data) /\ last.fault = 0) =>
        LET row == RowOf(last.pre.users, LoginField("username"))
            correct == \E u \in row :
                          /\ LoginField("password") # None
                          /\ u.password_hash = <<"hash", LoginField("password")[1]>>
        IN  /\ last.resp # None
            /\ row = {} =>
                  /\ Responded(404, "User not found")
                  /\ ~LastCalled("create_access_token")
            /\ (row # {} /\ ~correct) =>
                  /\ Responded(401, "Invalid password")
                  /\ ~LastCalled("create_access_token")
            /\ (row # {} /\ correct) =>
                  /\ Responded(200, "Login successful")
                  /\ last.resp[1].json.data.access_token
                       = [identity |-> LoginField("username")[1], days |-> 3]

\* The keys a route's schema requires of its body.
RequiredKeys(route) ==
    CASE route = "POST /register" -> {"username", "email", "password"}
      [] route = "POST /login" -> {"username", "password"}
      [] route = "POST /onboarding" -> {"preferences"}
      [] route = "POST /interactions" -> {"course_id", "interaction_type"}

\* C4: every route that takes a JSON body answers a missing or invalid body,
\* and a body that fails its schema, with status 400 and an error envelope,
\* never with another status code (for the routes behind a token: when the
\* token's user exists).
C4_BadBodyIs400 ==
    (/\ last.route \in {"POST /register", "POST /login", "POST /onboarding", "POST /interactions"}
     /\ last.fault = 0
     /\ last.who # None => RowOf(last.pre.users, last.who) # {}
     /\ \/ last.data.type # "object"
        \/ ~(RequiredKeys(last.route) \subseteq DOMAIN last.data.fields)) =>
        /\ last.resp # None
        /\ last.resp[1].code = 400
        /\ last.resp[1].json.status = "error"

\* C5: an unexpected exception of a service call made by a handler is caught
\* by the handler and answered with a 500 error envelope; none escapes.
C5_ExceptionsCaught ==
    (last.fault # 0 /\ Len(last.calls) >= last.fault) =>
        /\ last.raised = None
        /\ last.resp # None
        /\ last.resp[1].code = 500
        /\ last.resp[1].json.status = "error"

\* C8: every response a handler builds is an envelope with exactly the keys
\* status, message and data; status is "success" exactly for the codes 200
\* and 201 and "error" exactly for 400, 401, 404 and 500.
C8_Envelope ==
    last.resp # None =>
        LET r == last.resp[1]
        IN  /\ DOMAIN r.json = {"status", "message", "data"}
            /\ r.json.status \in {"success", "error"}
            /\ r.code \in {200, 201, 400, 401, 404, 500}
            /\ r.json.status = "success" <=> r.code \in {200, 201}
            /\ r.json.status = "error" <=> r.code \in {400, 401, 404, 500}

\* A response built by an except clause: the failure of a service call
\* answered with a 500 error envelope.
C8_Witness ==
    /\ last.fault # 0
    /\ last.resp # None
    /\ last.resp[1].code = 500
    /\ last.resp[1].json.status = "error"

\* The interactions of the database before the last request that carry the
\* request's id and belong to another user than the requesting one.
OthersInteraction ==
    {i \in last.pre.interactions :
        /\ i.id = last.interaction_id
        /\ \E u \in RowOf(last.pre.users, last.who) : i.user_id # u.id}

\* C9: DELETE /interactions/<id> by an existing user, with the id of an
\* interaction of another user and no service call failing, calls
\* delete_user_interaction_by_id with the id alone and answers 200 success;
\* the other user's interaction is removed.
C9_DeleteNoOwnership ==
    (/\ last.route = "DELETE /interactions"
     /\ last.fault = 0
     /\ OthersInteraction # {}) =>
        /\ \E i \in 1..Len(last.calls) :
              last.calls[i] = [fn |-> "delete_user_interaction_by_id",
                               args |-> <<last.interaction_id>>]
        /\ last.resp # None
        /\ last.resp[1].code = 200
        /\ last.resp[1].json.status = "success"
        /\ \A i \in interactions : i.id # last.interaction_id

\* A user deleted another user's interaction.
C9_Witness ==
    /\ last.route = "DELETE /interactions"
    /\ last.fault = 0
    /\ OthersInteraction # {}
    /\ OthersInteraction \cap interactions = {}

\* C10: of two POST /onboarding requests of the same user in flight
\* together, each having read onboarding_done false, at most one calls
\* complete_onboarding: none of the two has called it on a user whose
\* onboarding was completed already.
C10_AtMostOneCompletes ==
    \A w1, w2 \in Slots :
        (/\ w1 # w2
         /\ inflight[w1].who = inflight[w2].who
         /\ CalledCompleteOnboarding(w1)
         /\ CalledCompleteOnboarding(w2)) =>
            (~inflight[w1].done_before /\ ~inflight[w2].done_before)

====
